---- MODULE Spec2Model ----
(***************************************************************************)
(* The offline sync engine of src/src/services/syncService.ts: the durable *)
(* operation queue (table sync_queue), the record store (table tasks),     *)
(* TaskService's CRUD operations that enqueue, and SyncService.sync(), one *)
(* round of drain / batch / dispatch / apply.                              *)
(*                                                                         *)
(* sync() is an async function: it gives up control at every await, so a   *)
(* round is modelled as a process whose steps are the database statements  *)
(* it awaits, and CRUD requests may run between two of them.               *)
(*                                                                         *)
(* Timestamps are milliseconds.  The code stores them as ISO-8601 strings  *)
(* (toISOString) and compares them as strings (ORDER BY created_at) or     *)
(* after new Date(..).getTime(); toISOString is fixed-width, so both       *)
(* orders are the order of the millisecond values kept here.               *)
(* A task's application fields title, description and completed take the   *)
(* same path through every operation; the model carries title.             *)
(***************************************************************************)
EXTENDS Integers, Sequences, FiniteSets, TLC

(* ------------------------------ bounds -------------------------------- *)
MaxTasks == 2
MaxItems == 2
MaxTime == 1
MaxBatch == 2

(* ------------------------- program constants -------------------------- *)
maxRetries == 3

NULL == -1

\* the number NaN: a value no timestamp, index or size of the model takes
NaN == -1000

UnknownError == "Unknown error"

TaskIds == 1..MaxTasks
Titles == {"a", "b"}
\* the titles the requests carry: a new task is titled "a"; an update sets
\* the title "b" or leaves the title out ("NULL")
NewTitles == {"a"}
UpdateTitles == {"b", "NULL"}
Operations == {"create", "update", "delete"}
Rounds == {"r1", "r2"}
BatchSizes == 1..MaxBatch
\* the values SYNC_BATCH_SIZE may have in the environment, as character
\* sequences: unset or empty, "0", "-1", "x", "1"
EnvValues == {<<>>, <<"0">>, <<"-", "1">>, <<"x">>, <<"1">>}
\* what the remote may put into an outcome
RemoteErrors == {"NULL", "rejected"}
DispatchError == "network"
NoClient == 0

VARIABLES tasks, sync_queue, nextQueueId, now, batchSize, round, obs, probe

vars == <<tasks, sync_queue, nextQueueId, now, batchSize, round, obs, probe>>

(* ------------------------------ helpers ------------------------------- *)
Min(a, b) == IF a <= b THEN a ELSE b

Max(a, b) == IF a >= b THEN a ELSE b

\* a + b and a < b on numbers: NaN when an operand is NaN, false when an
\* operand is NaN
plus(a, b) == IF a = NaN \/ b = NaN THEN NaN ELSE a + b

lt(a, b) == a # NaN /\ b # NaN /\ a < b

\* the value of a decimal digit, -1 for any other character
digit(c) == CASE c = "0" -> 0 [] c = "1" -> 1 [] c = "2" -> 2 [] c = "3" -> 3
              [] c = "4" -> 4 [] c = "5" -> 5 [] c = "6" -> 6 [] c = "7" -> 7
              [] c = "8" -> 8 [] c = "9" -> 9 [] OTHER -> -1

\* the digits at the head of a character sequence, read as a decimal number
\* on top of acc
RECURSIVE digits(_, _)
digits(str, acc) ==
  IF str = <<>> \/ digit(Head(str)) < 0 THEN acc
  ELSE digits(Tail(str), 10 * acc + digit(Head(str)))

\* parseInt(str, 10): an optional sign, then the leading digits; NaN when
\* there is no digit
parseInt(str) ==
  LET neg == str # <<>> /\ Head(str) = "-"
      rest == IF neg THEN Tail(str) ELSE str
  IN  IF rest = <<>> \/ digit(Head(rest)) < 0 THEN NaN
      ELSE IF neg THEN 0 - digits(rest, 0) ELSE digits(rest, 0)

\* an index argument of slice made relative to the length: NaN is 0, a
\* negative index counts from the end
relative(x, len) ==
  IF x = NaN THEN 0 ELSE IF x < 0 THEN Max(len + x, 0) ELSE Min(x, len)

Range(s) == {s[i] : i \in 1..Len(s)}

\* Array.prototype.slice(from, to) with 0-based, end-exclusive indexes
slice(s, from, to) ==
  [i \in 1..(relative(to, Len(s)) - relative(from, Len(s))) |->
     s[relative(from, Len(s)) + i]]

(* ----------------------------- the store ------------------------------ *)
\* the lookup without the is_deleted filter
getTask_anyRow(id) ==
  IF id \in DOMAIN tasks THEN {tasks[id]} ELSE {}

\* getTask: SELECT * FROM tasks WHERE id = ? AND is_deleted = 0; null when no row
getTask(id) ==
  IF id \in DOMAIN tasks /\ ~tasks[id].is_deleted THEN {tasks[id]} ELSE {}

\* the Task object a row maps to (with its id)
mapRowToTask(id, row) ==
  [id |-> id, title |-> row.title,
   updated_at |-> row.updated_at, is_deleted |-> row.is_deleted,
   sync_status |-> row.sync_status, server_id |-> row.server_id,
   last_synced_at |-> row.last_synced_at]

\* INSERT INTO sync_queue (id, task_id, operation, data, created_at, retry_count)
addToSyncQueue(queue, queueId, taskId, operation, data) ==
  queue \cup {[id |-> queueId, task_id |-> taskId, operation |-> operation,
               data |-> data, created_at |-> now, retry_count |-> 0,
               error_message |-> "NULL"]}

\* the removal keyed by the Record: every item of the Record goes
removeFromSyncQueue_byTask(queue, queueItemId) ==
  {row \in queue : \A item \in queue : item.id = queueItemId => row.task_id # item.task_id}

\* DELETE FROM sync_queue WHERE id = ?
removeFromSyncQueue(queue, queueItemId) ==
  {row \in queue : row.id # queueItemId}

\* the retry update as an upsert: a row is written for an id that has none
updateRetry_upsert(queue, queueItemId, newRetryCount, message) ==
  IF \E row \in queue : row.id = queueItemId
    THEN {IF row.id = queueItemId
            THEN [row EXCEPT !.retry_count = newRetryCount, !.error_message = message]
            ELSE row : row \in queue}
    ELSE queue \cup {[id |-> queueItemId, task_id |-> 1, operation |-> "update",
                      retry_count |-> newRetryCount, error_message |-> message]}

\* the retry update storing the message and leaving the count as it is
updateRetry_keepCount(queue, queueItemId, newRetryCount, message) ==
  {IF row.id = queueItemId
     THEN [row EXCEPT !.error_message = message]
     ELSE row : row \in queue}

\* UPDATE sync_queue SET retry_count = ?, error_message = ? WHERE id = ?
updateRetry(queue, queueItemId, newRetryCount, message) ==
  {IF row.id = queueItemId
     THEN [row EXCEPT !.retry_count = newRetryCount, !.error_message = message]
     ELSE row : row \in queue}

\* updateSyncStatus leaving server_id out of the UPDATE
updateSyncStatus_noServerId(store, taskId, status, server_id) ==
  IF taskId \notin DOMAIN store THEN store
  ELSE [store EXCEPT ![taskId] =
          [@ EXCEPT !.sync_status = status, !.last_synced_at = now]]

\* UPDATE tasks SET sync_status = ?, last_synced_at = ? [, server_id = ?] WHERE id = ?
updateSyncStatus(store, taskId, status, server_id) ==
  IF taskId \notin DOMAIN store THEN store
  ELSE [store EXCEPT ![taskId] =
          [@ EXCEPT !.sync_status = status,
                    !.last_synced_at = now,
                    !.server_id = IF server_id # NULL THEN server_id ELSE @]]

(* ------------------------ pending query, batches ---------------------- *)
\* all orders of a finite set
RECURSIVE Orders(_)
Orders(S) ==
  IF S = {} THEN {<<>>}
  ELSE UNION {{<<x>> \o t : t \in Orders(S \ {x})} : x \in S}

\* the pending query with retry_count <= ? as its filter
getSyncQueueItems_inclusive(queue) ==
  {s \in Orders({row \in queue : row.retry_count <= maxRetries}) :
     \A i \in 1..Len(s) - 1 : s[i].created_at <= s[i + 1].created_at}

\* SELECT * FROM sync_queue WHERE retry_count < ? ORDER BY created_at ASC:
\* the rows in any order that ORDER BY allows (rows of equal created_at come
\* in an order SQL leaves open)
getSyncQueueItems(queue) ==
  {s \in Orders({row \in queue : row.retry_count < maxRetries}) :
     \A i \in 1..Len(s) - 1 : s[i].created_at <= s[i + 1].created_at}

\* for (let i = 0; i < queueItems.length; i += batchSize)
\*   batches.push(queueItems.slice(i, i + batchSize))
RECURSIVE BatchesFrom(_, _, _)
BatchesFrom(queueItems, size, i) ==
  IF i < Len(queueItems)
    THEN <<slice(queueItems, i, i + size)>> \o BatchesFrom(queueItems, size, i + size)
    ELSE <<>>

\* the batches cut one item too long: slice(i, i + batchSize + 1)
RECURSIVE BatchesFrom_overlap(_, _, _)
BatchesFrom_overlap(queueItems, size, i) ==
  IF i < Len(queueItems)
    THEN <<slice(queueItems, i, i + size + 1)>>
           \o BatchesFrom_overlap(queueItems, size, i + size)
    ELSE <<>>

Batches_overlap(queueItems, size) == BatchesFrom_overlap(queueItems, size, 0)

Batches(queueItems, size) == BatchesFrom(queueItems, size, 0)

\* batch.find(item => item.task_id === client_id): the index of the first
\* item of the batch with that task_id, 0 when there is none
find(batch, client_id) ==
  IF \E i \in 1..Len(batch) : batch[i].task_id = client_id
    THEN CHOOSE i \in 1..Len(batch) :
           /\ batch[i].task_id = client_id
           /\ \A j \in 1..(i - 1) : batch[j].task_id # client_id
    ELSE 0

(* ------------------------- conflict resolution ------------------------ *)
\* new Date(x).getTime(): the milliseconds of a timestamp, NaN for a value
\* that is no date
getTime(x) == IF x >= 0 THEN x ELSE NaN

\* a > b on numbers: false when either is NaN
gt(a, b) == a # NaN /\ b # NaN /\ a > b

\* resolveConflict with the tie given to the local version
resolveConflict_tieLocal(localTask, serverTask) ==
  IF ~gt(getTime(serverTask.updated_at), getTime(localTask.updated_at))
    THEN localTask
    ELSE serverTask

\* last-write-wins on updated_at; the server version on a tie
resolveConflict(localTask, serverTask) ==
  LET localTime == getTime(localTask.updated_at)
      serverTime == getTime(serverTask.updated_at)
  IN  IF gt(localTime, serverTime) THEN localTask
      ELSE IF gt(serverTime, localTime) THEN serverTask
      ELSE serverTask

(* ------------------------------ the remote ---------------------------- *)
\* processBatch as written: every item accepted under its own id
processBatch(items) ==
  [i \in 1..Len(items) |->
     [client_id |-> items[i].task_id, server_id |-> items[i].task_id,
      status |-> "success", resolved_data |-> {items[i].data},
      error |-> "NULL"]]

\* the server's view of a record, returned with a conflict
ServerTasks(item) ==
  {[item.data EXCEPT !.title = t, !.updated_at = u] :
     t \in Titles, u \in 0..MaxTime}

\* The outcomes a batch response may hold for the item at position i (one of
\* {client_id, status, server_id?, resolved_data?, error?}), which sync()
\* handles case by case; processBatch(items)[i] is one of them.
\* resolved_data is {} when absent and {task} when present.
RemoteOutcomes(items, i) ==
  LET item == items[i]
      ids == {item.task_id} \cup {NoClient} \cup {items[j].task_id : j \in 1..Len(items)}
  IN  {processBatch(items)[i]}
      \cup [client_id : ids, server_id : {item.task_id},
            status : {"success"}, resolved_data : {{}}, error : {"NULL"}]
      \cup [client_id : ids, server_id : {NULL},
            status : {"conflict"},
            resolved_data : {{}} \cup {{t} : t \in ServerTasks(item)},
            error : {"NULL"}]
      \cup [client_id : ids, server_id : {NULL}, status : {"failure"},
            resolved_data : {{}}, error : RemoteErrors]

(* ------------------------------- state -------------------------------- *)
InitResult == [success |-> TRUE, synced_items |-> 0, failed_items |-> 0, errors |-> <<>>]

NoOutcome ==
  [client_id |-> NoClient, server_id |-> NULL, status |-> "none",
   resolved_data |-> {}, error |-> "NULL"]

\* a round that is not running: the locals of sync() before it is called
RoundIdle ==
  [pc |-> "idle", queueItems |-> <<>>, batches |-> <<>>, i |-> 0, b |-> 0, k |-> 0,
   cur |-> 0, processedItem |-> NoOutcome, err |-> "NULL", inCatch |-> FALSE,
   result |-> InitResult]

\* what is recorded about a round to state the properties: whether every
\* outcome so far carried the client_id of the item at its position
\* (echoed) and was a success (allSuccess), the batches whose dispatch threw
\* (threw), and the number of outcomes and failed-batch items handled so far
\* (handled), and whether its read of the queue failed (readFailed)
ObsIdle ==
  [allSuccess |-> TRUE, echoed |-> TRUE, threw |-> {}, handled |-> 0,
   readFailed |-> FALSE]

\* no function has been called on its own
NoProbe == [fn |-> "none"]

Init ==
  /\ tasks = << >>
  /\ sync_queue = {}
  /\ nextQueueId = 1
  /\ now = 0
  /\ batchSize \in BatchSizes
  /\ round = [r \in Rounds |-> RoundIdle]
  /\ obs = [r \in Rounds |-> ObsIdle]
  /\ probe = NoProbe

(* -------------------------------- CRUD -------------------------------- *)
\* the clock advances
Tick ==
  /\ now < MaxTime
  /\ now' = now + 1
  /\ UNCHANGED <<tasks, sync_queue, nextQueueId, batchSize, round, obs, probe>>

createTask(title) ==
  /\ nextQueueId <= MaxItems
  /\ \E id \in TaskIds :
       /\ id \notin DOMAIN tasks
       /\ \A j \in TaskIds : j < id => j \in DOMAIN tasks
       /\ LET row == [title |-> title, updated_at |-> now,
                      is_deleted |-> FALSE, sync_status |-> "pending",
                      server_id |-> NULL, last_synced_at |-> NULL]
          IN  /\ tasks' = tasks @@ (id :> row)
              /\ sync_queue' = addToSyncQueue(sync_queue, nextQueueId, id, "create",
                                              mapRowToTask(id, row))
  /\ nextQueueId' = nextQueueId + 1
  /\ UNCHANGED <<now, batchSize, round, obs, probe>>

\* updates.title is a title, or NULL when the request leaves the title out
updateTask(id, title) ==
  /\ nextQueueId <= MaxItems
  /\ IF getTask(id) = {}
       THEN UNCHANGED <<tasks, sync_queue, nextQueueId>>
       ELSE LET row == [tasks[id] EXCEPT
                          !.title = IF title # "NULL" THEN title ELSE @,
                          !.updated_at = now,
                          !.sync_status = "pending"]
            IN  /\ tasks' = [tasks EXCEPT ![id] = row]
                /\ sync_queue' = addToSyncQueue(sync_queue, nextQueueId, id, "update",
                                                mapRowToTask(id, row))
                /\ nextQueueId' = nextQueueId + 1
  /\ UNCHANGED <<now, batchSize, round, obs, probe>>

\* deleteTask marking the Record synced, the delete taken as done
deleteTask_markSynced(id) ==
  /\ nextQueueId <= MaxItems
  /\ IF getTask(id) = {}
       THEN UNCHANGED <<tasks, sync_queue, nextQueueId>>
       ELSE LET existingTask == mapRowToTask(id, tasks[id])
            IN  /\ tasks' = [tasks EXCEPT ![id] =
                               [@ EXCEPT !.is_deleted = TRUE, !.updated_at = now,
                                         !.sync_status = "synced"]]
                /\ sync_queue' = addToSyncQueue(sync_queue, nextQueueId, id, "delete",
                                                [existingTask EXCEPT !.is_deleted = TRUE])
                /\ nextQueueId' = nextQueueId + 1
  /\ UNCHANGED <<now, batchSize, round, obs, probe>>

deleteTask(id) ==
  /\ nextQueueId <= MaxItems
  /\ IF getTask(id) = {}
       THEN UNCHANGED <<tasks, sync_queue, nextQueueId>>
       ELSE LET existingTask == mapRowToTask(id, tasks[id])
            IN  /\ tasks' = [tasks EXCEPT ![id] =
                               [@ EXCEPT !.is_deleted = TRUE, !.updated_at = now,
                                         !.sync_status = "pending"]]
                /\ sync_queue' = addToSyncQueue(sync_queue, nextQueueId, id, "delete",
                                                [existingTask EXCEPT !.is_deleted = TRUE])
                /\ nextQueueId' = nextQueueId + 1
  /\ UNCHANGED <<now, batchSize, round, obs, probe>>

(* ------------------------------ sync() -------------------------------- *)
\* the batch being processed by round r
batchOf(rr) == rr.batches[rr.b]

\* the error entry pushed without the failure being counted
pushError_noCount(result, item, message) ==
  [result EXCEPT
     !.errors = Append(@, [task_id |-> item.task_id, operation |-> item.operation,
                           error |-> message, timestamp |-> now])]

\* result.errors.push({task_id, operation, error, timestamp: new Date()})
pushError(result, item, message) ==
  [result EXCEPT
     !.failed_items = @ + 1,
     !.errors = Append(@, [task_id |-> item.task_id, operation |-> item.operation,
                           error |-> message, timestamp |-> now])]

\* the round given up after a batch that threw
nextBatch_abortOnThrow(rr) ==
  IF rr.b < Len(rr.batches) /\ ~rr.inCatch
    THEN [rr EXCEPT !.pc = "dispatch", !.b = @ + 1, !.k = 0, !.cur = 0,
                    !.processedItem = NoOutcome, !.err = "NULL", !.inCatch = FALSE]
    ELSE [rr EXCEPT !.pc = "done", !.k = 0, !.cur = 0,
                    !.processedItem = NoOutcome, !.err = "NULL", !.inCatch = FALSE,
                    !.result.success = (rr.result.failed_items = 0)]

\* the end of the loop over the batches: result.success = failed_items === 0
nextBatch(rr) ==
  IF rr.b < Len(rr.batches)
    THEN [rr EXCEPT !.pc = "dispatch", !.b = @ + 1, !.k = 0, !.cur = 0,
                    !.processedItem = NoOutcome, !.err = "NULL", !.inCatch = FALSE]
    ELSE [rr EXCEPT !.pc = "done", !.k = 0, !.cur = 0,
                    !.processedItem = NoOutcome, !.err = "NULL", !.inCatch = FALSE,
                    !.result.success = (rr.result.failed_items = 0)]

\* the next iteration of the loop the round is in: over the outcomes of the
\* response (one per item of the batch), or over the items of a batch whose
\* processing threw
nextItem(rr) ==
  IF rr.k < Len(batchOf(rr))
    THEN [rr EXCEPT !.pc = IF rr.inCatch THEN "catch" ELSE "apply", !.k = @ + 1,
                    !.cur = 0, !.processedItem = NoOutcome,
                    !.err = IF rr.inCatch THEN rr.err ELSE "NULL"]
    ELSE nextBatch(rr)

\* sync() is called: the pending items are read and grouped into batches
syncStart(r) ==
  /\ round[r].pc = "idle"
  /\ \E queueItems \in getSyncQueueItems(sync_queue) :
       round' = [round EXCEPT ![r] =
                   IF Len(queueItems) = 0
                     THEN [RoundIdle EXCEPT !.pc = "done"]
                     ELSE [RoundIdle EXCEPT !.pc = "dispatch",
                                            !.queueItems = queueItems,
                                            !.batches = Batches(queueItems, batchSize),
                                            !.b = 1]]
  /\ obs' = [obs EXCEPT ![r] = ObsIdle]
  /\ UNCHANGED <<tasks, sync_queue, nextQueueId, now, batchSize, probe>>

\* await this.processBatch(batch) returns a response: the loop over its
\* outcomes begins (a response to an empty batch has none)
dispatchReturns(r) ==
  /\ round[r].pc = "dispatch"
  /\ round' = [round EXCEPT ![r] = nextItem(round[r])]
  /\ obs' = obs
  /\ UNCHANGED <<tasks, sync_queue, nextQueueId, now, batchSize, probe>>

\* await this.processBatch(batch) throws: the catch block takes the batch
dispatchThrows(r) ==
  /\ round[r].pc = "dispatch"
  /\ round' = [round EXCEPT ![r] =
                 nextItem([round[r] EXCEPT !.inCatch = TRUE, !.err = DispatchError])]
  /\ obs' = [obs EXCEPT ![r].allSuccess = FALSE, ![r].threw = @ \cup {round[r].b}]
  /\ UNCHANGED <<tasks, sync_queue, nextQueueId, now, batchSize, probe>>

\* handleSyncError(item, error), its first statement: with the retries used
\* up the task is marked first, otherwise the queue row is updated first
handleSyncErrorFirst(r, rr, item, message) ==
  LET newRetryCount == item.retry_count + 1 IN
  /\ IF newRetryCount >= maxRetries
       THEN /\ tasks' = updateSyncStatus(tasks, item.task_id, "error", NULL)
            /\ sync_queue' = sync_queue
            /\ round' = [round EXCEPT ![r] = [rr EXCEPT !.pc = "hse_queue", !.err = message]]
       ELSE /\ sync_queue' = updateRetry(sync_queue, item.id, newRetryCount, message)
            /\ tasks' = tasks
            /\ round' = [round EXCEPT ![r] = [rr EXCEPT !.pc = "hse_status", !.err = message]]

\* an outcome of the response is matched to a queue item of the batch by its
\* client_id and handled up to the first statement awaited
handleOutcome(r, processedItem) ==
  /\ round[r].pc = "apply"
  /\   LET batch == batchOf(round[r])
           cur == find(batch, processedItem.client_id)
           queueItem == batch[cur]
           rr == [round[r] EXCEPT !.cur = cur, !.processedItem = processedItem]
           echo == processedItem.client_id = batch[round[r].k].task_id
       IN  /\ obs' = [obs EXCEPT
                         ![r].allSuccess = @ /\ echo /\ processedItem.status = "success",
                         ![r].echoed = @ /\ echo,
                         ![r].handled = @ + 1]
           /\ IF cur = 0
                THEN /\ round' = [round EXCEPT ![r] = nextItem(round[r])]
                     /\ UNCHANGED <<tasks, sync_queue>>
                ELSE IF processedItem.status = "success"
                THEN /\ tasks' = updateSyncStatus(tasks, queueItem.task_id, "synced",
                                                  processedItem.server_id)
                     /\ round' = [round EXCEPT ![r] = [rr EXCEPT !.pc = "remove"]]
                     /\ UNCHANGED sync_queue
                ELSE IF processedItem.status = "conflict"
                        /\ processedItem.resolved_data # {}
                THEN \* the task resolveConflict returns is not used
                     /\ \E serverTask \in processedItem.resolved_data :
                          resolveConflict(queueItem.data, serverTask) \in
                            {queueItem.data, serverTask}
                     /\ tasks' = updateSyncStatus(tasks, queueItem.task_id, "synced",
                                                  processedItem.server_id)
                     /\ round' = [round EXCEPT ![r] = [rr EXCEPT !.pc = "remove"]]
                     /\ UNCHANGED sync_queue
                ELSE handleSyncErrorFirst(r, rr, queueItem,
                       IF processedItem.error # "NULL" THEN processedItem.error
                       ELSE UnknownError)
  /\ UNCHANGED <<nextQueueId, now, batchSize, probe>>

\* the next outcome of the response is taken, the remote free in what it
\* answers
applyOutcome(r) ==
  /\ round[r].pc = "apply"
  /\ \E processedItem \in RemoteOutcomes(batchOf(round[r]), round[r].k) :
       handleOutcome(r, processedItem)

\* the next outcome of the response is taken, the response being the one
\* processBatch builds
applySimulated(r) ==
  /\ round[r].pc = "apply"
  /\ handleOutcome(r, processBatch(batchOf(round[r]))[round[r].k])

\* await this.removeFromSyncQueue(queueItem.id); result.synced_items++
removeSynced(r) ==
  /\ round[r].pc = "remove"
  /\ LET rr == round[r]
         queueItem == batchOf(rr)[rr.cur]
     IN  /\ sync_queue' = removeFromSyncQueue(sync_queue, queueItem.id)
         /\ round' = [round EXCEPT ![r] =
                        nextItem([rr EXCEPT !.result.synced_items = @ + 1])]
  /\ UNCHANGED <<tasks, nextQueueId, now, batchSize, obs, probe>>

\* the catch block takes the next item of the batch
catchItem(r) ==
  /\ round[r].pc = "catch"
  /\ LET rr == [round[r] EXCEPT !.cur = round[r].k]
     IN  handleSyncErrorFirst(r, rr, batchOf(rr)[rr.k], rr.err)
  /\ obs' = [obs EXCEPT ![r].handled = @ + 1]
  /\ UNCHANGED <<nextQueueId, now, batchSize, probe>>

\* handleSyncError, dead-letter branch, second statement: the queue row gets
\* the retry count and the permanent-failure message; then the caller counts
\* the failure
handleSyncErrorQueue(r) ==
  /\ round[r].pc = "hse_queue"
  /\ LET rr == round[r]
         item == batchOf(rr)[rr.cur]
     IN  /\ sync_queue' = updateRetry(sync_queue, item.id, item.retry_count + 1,
                                      "Permanent failure: " \o rr.err)
         /\ round' = [round EXCEPT ![r] =
                        nextItem([rr EXCEPT !.result = pushError(@, item, rr.err)])]
  /\ UNCHANGED <<tasks, nextQueueId, now, batchSize, obs, probe>>

\* handleSyncError, retry branch, second statement: the task is marked; then
\* the caller counts the failure
handleSyncErrorStatus(r) ==
  /\ round[r].pc = "hse_status"
  /\ LET rr == round[r]
         item == batchOf(rr)[rr.cur]
     IN  /\ tasks' = updateSyncStatus(tasks, item.task_id, "error", NULL)
         /\ round' = [round EXCEPT ![r] =
                        nextItem([rr EXCEPT !.result = pushError(@, item, rr.err)])]
  /\ UNCHANGED <<sync_queue, nextQueueId, now, batchSize, obs, probe>>

\* sync() returns its result to the caller
syncReturn(r) ==
  /\ round[r].pc = "done"
  /\ round' = [round EXCEPT ![r] = RoundIdle]
  /\ obs' = [obs EXCEPT ![r] = ObsIdle]
  /\ UNCHANGED <<tasks, sync_queue, nextQueueId, now, batchSize, probe>>

(* --------------------------- specifications --------------------------- *)
NoRoundActive == \A r \in Rounds : round[r].pc = "idle"

\* a round is started while no round is running
serialStart(r) == NoRoundActive /\ r = "r1" /\ syncStart(r)

\* the executions in which no two calls of sync() overlap: a round is started
\* when none is running; CRUD requests come at any time
Next ==
  \/ Tick
  \/ \E title \in NewTitles : createTask(title)
  \/ \E id \in TaskIds, title \in UpdateTitles : updateTask(id, title)
  \/ \E id \in TaskIds : deleteTask(id)
  \/ \E r \in Rounds : serialStart(r)
  \/ \E r \in Rounds : dispatchReturns(r)
  \/ \E r \in Rounds : dispatchThrows(r)
  \/ \E r \in Rounds : applyOutcome(r)
  \/ \E r \in Rounds : removeSynced(r)
  \/ \E r \in Rounds : catchItem(r)
  \/ \E r \in Rounds : handleSyncErrorQueue(r)
  \/ \E r \in Rounds : handleSyncErrorStatus(r)
  \/ \E r \in Rounds : syncReturn(r)

Spec == Init /\ [][Next]_vars

(* ---------------- the service as configured and started ---------------- *)
\* the batches the heap has room for: more than any list a round reads needs
MaxHeap == MaxItems + 1

\* the message of the RangeError push throws when the array cannot grow
HeapError == "Invalid array length"

\* the constructor: batchSize = parseInt(process.env.SYNC_BATCH_SIZE || '50', 10)
InitConfig ==
  /\ tasks = << >>
  /\ sync_queue = {}
  /\ nextQueueId = 1
  /\ now = 0
  /\ \E env \in EnvValues :
       batchSize = parseInt(IF env = <<>> THEN <<"5", "0">> ELSE env)
  /\ round = [r \in Rounds |-> RoundIdle]
  /\ obs = [r \in Rounds |-> ObsIdle]
  /\ probe = NoProbe

\* the outer catch leaving result.success as it was
syncFails_keepsSuccess(result, message) ==
  [result EXCEPT
     !.errors = Append(@, [task_id |-> "N/A", operation |-> "sync",
                           error |-> message, timestamp |-> now])]

\* the outer catch of sync(): the round fails with one entry that names no task
syncFails(result, message) ==
  [result EXCEPT
     !.success = FALSE,
     !.errors = Append(@, [task_id |-> "N/A", operation |-> "sync",
                           error |-> message, timestamp |-> now])]

\* sync() is called while no round runs: the pending items are read; the
\* batching loop is next
syncRead(r) ==
  /\ NoRoundActive /\ r = "r1"
  /\ \E queueItems \in getSyncQueueItems(sync_queue) :
       round' = [round EXCEPT ![r] =
                   IF Len(queueItems) = 0
                     THEN [RoundIdle EXCEPT !.pc = "done"]
                     ELSE [RoundIdle EXCEPT !.pc = "batching",
                                            !.queueItems = queueItems]]
  /\ obs' = [obs EXCEPT ![r] = ObsIdle]
  /\ UNCHANGED <<tasks, sync_queue, nextQueueId, now, batchSize, probe>>

\* one pass of for (let i = 0; i < queueItems.length; i += this.batchSize):
\* a batch is pushed, or the loop ends and the first batch is dispatched.
\* With no room left for the batch the process is aborted (heap out of
\* memory), or push throws and the outer catch of sync() returns a failure.
batchPush(r) ==
  /\ round[r].pc = "batching"
  /\ LET rr == round[r] IN
     IF lt(rr.i, Len(rr.queueItems))
       THEN IF Len(rr.batches) < MaxHeap
              THEN round' = [round EXCEPT ![r] =
                               [rr EXCEPT
                                  !.batches = Append(@, slice(rr.queueItems, rr.i,
                                                              plus(rr.i, batchSize))),
                                  !.i = plus(@, batchSize)]]
              ELSE \/ round' = [round EXCEPT ![r].pc = "aborted"]
                   \/ round' = [round EXCEPT ![r] =
                                  [rr EXCEPT !.pc = "done",
                                             !.result = syncFails(@, HeapError)]]
       ELSE round' = [round EXCEPT ![r] = nextBatch(rr)]
  /\ UNCHANGED <<tasks, sync_queue, nextQueueId, now, batchSize, obs, probe>>

\* the steps of a round that has been started
roundStep(r) ==
  \/ batchPush(r)
  \/ dispatchReturns(r)
  \/ applySimulated(r)
  \/ removeSynced(r)

NextConfig ==
  \/ Tick
  \/ \E title \in NewTitles : createTask(title)
  \/ \E id \in TaskIds, title \in UpdateTitles : updateTask(id, title)
  \/ \E id \in TaskIds : deleteTask(id)
  \/ \E r \in Rounds : syncRead(r)
  \/ \E r \in Rounds : batchPush(r)
  \/ \E r \in Rounds : dispatchReturns(r)
  \/ \E r \in Rounds : applySimulated(r)
  \/ \E r \in Rounds : removeSynced(r)
  \/ \E r \in Rounds : syncReturn(r)

\* a round that has been started goes on: the event loop runs its next step
SpecConfig ==
  InitConfig /\ [][NextConfig]_vars /\ WF_vars(\E r \in Rounds : roundStep(r))

(* ------------------------- the queue unreadable ------------------------ *)
\* what a statement the database rejects throws
StorageError == "SQLITE_ERROR"

\* sync() is called while no round runs and await this.getSyncQueueItems()
\* throws: the outer catch takes it and the result is returned
syncReadFails(r) ==
  /\ NoRoundActive /\ r = "r1"
  /\ round' = [round EXCEPT ![r] =
                 [RoundIdle EXCEPT !.pc = "done",
                                   !.result = syncFails(@, StorageError)]]
  /\ obs' = [obs EXCEPT ![r] = [ObsIdle EXCEPT !.allSuccess = FALSE,
                                               !.readFailed = TRUE]]
  /\ UNCHANGED <<tasks, sync_queue, nextQueueId, now, batchSize, probe>>

\* rounds one at a time, the read of the queue failing or not, the remote
\* processBatch as written
NextStorage ==
  \/ Tick
  \/ \E title \in NewTitles : createTask(title)
  \/ \E id \in TaskIds, title \in UpdateTitles : updateTask(id, title)
  \/ \E id \in TaskIds : deleteTask(id)
  \/ \E r \in Rounds : serialStart(r)
  \/ \E r \in Rounds : syncReadFails(r)
  \/ \E r \in Rounds : dispatchReturns(r)
  \/ \E r \in Rounds : applySimulated(r)
  \/ \E r \in Rounds : removeSynced(r)
  \/ \E r \in Rounds : syncReturn(r)

SpecStorage == Init /\ [][NextStorage]_vars

(* ----------------------- a statement that fails ------------------------ *)
\* The statement round r is about to run (an UPDATE of tasks, a DELETE or an
\* UPDATE of sync_queue) rejects. Inside the try block of a batch the catch
\* block takes over and runs handleSyncError on every item of the batch,
\* from the first; inside the catch block the error leaves the loop over
\* the batches and the outer catch returns the result.
statementThrows(r) ==
  /\ round[r].pc \in {"apply", "remove", "catch", "hse_queue", "hse_status"}
  /\ LET rr == round[r]
     IN  round' = [round EXCEPT ![r] =
                     IF ~rr.inCatch
                       THEN nextItem([rr EXCEPT !.k = 0, !.cur = 0,
                                                !.processedItem = NoOutcome,
                                                !.inCatch = TRUE,
                                                !.err = StorageError])
                       ELSE [rr EXCEPT !.pc = "done", !.k = 0, !.cur = 0,
                                       !.processedItem = NoOutcome,
                                       !.err = "NULL", !.inCatch = FALSE,
                                       !.result = syncFails(@, StorageError)]]
  /\ obs' = [obs EXCEPT ![r].allSuccess = FALSE]
  /\ UNCHANGED <<tasks, sync_queue, nextQueueId, now, batchSize, probe>>

\* rounds one at a time, any statement of a round failing or not, the remote
\* processBatch as written
NextStatement ==
  \/ Tick
  \/ \E title \in NewTitles : createTask(title)
  \/ \E id \in TaskIds, title \in UpdateTitles : updateTask(id, title)
  \/ \E id \in TaskIds : deleteTask(id)
  \/ \E r \in Rounds : serialStart(r)
  \/ \E r \in Rounds : dispatchReturns(r)
  \/ \E r \in Rounds : applySimulated(r)
  \/ \E r \in Rounds : removeSynced(r)
  \/ \E r \in Rounds : statementThrows(r)
  \/ \E r \in Rounds : catchItem(r)
  \/ \E r \in Rounds : handleSyncErrorQueue(r)
  \/ \E r \in Rounds : handleSyncErrorStatus(r)
  \/ \E r \in Rounds : syncReturn(r)

SpecStatement == Init /\ [][NextStatement]_vars

(* ------------------------ requests as they come ----------------------- *)
\* POST /sync calls sync() on every request, whether or not a round is
\* running; the remote is processBatch as written
NextOverlap ==
  \/ Tick
  \/ \E title \in NewTitles : createTask(title)
  \/ \E id \in TaskIds, title \in UpdateTitles : updateTask(id, title)
  \/ \E id \in TaskIds : deleteTask(id)
  \/ \E r \in Rounds : syncStart(r)
  \/ \E r \in Rounds : dispatchReturns(r)
  \/ \E r \in Rounds : applySimulated(r)
  \/ \E r \in Rounds : removeSynced(r)
  \/ \E r \in Rounds : syncReturn(r)

SpecOverlap == Init /\ [][NextOverlap]_vars

\* POST /sync on every request with a network that may fail: the dispatch of
\* a batch returns the response processBatch builds, or throws; the Records
\* are created and not changed afterwards
NextOverlapFail ==
  \/ \E title \in NewTitles : createTask(title)
  \/ \E r \in Rounds : syncStart(r)
  \/ \E r \in Rounds : dispatchReturns(r)
  \/ \E r \in Rounds : dispatchThrows(r)
  \/ \E r \in Rounds : applySimulated(r)
  \/ \E r \in Rounds : removeSynced(r)
  \/ \E r \in Rounds : catchItem(r)
  \/ \E r \in Rounds : handleSyncErrorQueue(r)
  \/ \E r \in Rounds : handleSyncErrorStatus(r)
  \/ \E r \in Rounds : syncReturn(r)

SpecOverlapFail == Init /\ [][NextOverlapFail]_vars

\* resolveConflict on its own: called with any local and any server version
LocalTasks ==
  [id : TaskIds, title : Titles, updated_at : 0..MaxTime, is_deleted : BOOLEAN,
   sync_status : {"pending", "synced", "error"}, server_id : {NULL},
   last_synced_at : {NULL}]

RemoteTasks ==
  [id : TaskIds, title : Titles, updated_at : (0..MaxTime) \cup {NULL},
   is_deleted : BOOLEAN, sync_status : {"synced"}, server_id : {NULL},
   last_synced_at : {NULL}]

resolveCall ==
  /\ probe = NoProbe
  /\ \E localTask \in LocalTasks, serverTask \in RemoteTasks :
       probe' = [fn |-> "resolveConflict", localTask |-> localTask,
                 serverTask |-> serverTask,
                 winner |-> resolveConflict(localTask, serverTask)]
  /\ UNCHANGED <<tasks, sync_queue, nextQueueId, now, batchSize, round, obs>>

SpecResolve == Init /\ [][resolveCall]_vars

\* the queue statements on their own: run on any queue of up to MaxItems
\* rows (of a row, the columns the statements read or write, and the task
\* and operation)
QueueRows ==
  [id : 1..MaxItems, task_id : TaskIds, operation : {"update"},
   retry_count : 0..maxRetries, error_message : {"NULL"}]

\* the sets of rows with distinct ids
Queues ==
  UNION {{{[f[id] EXCEPT !.id = id] : id \in ids} : f \in [ids -> QueueRows]} :
         ids \in SUBSET (1..MaxItems)}

\* removeFromSyncQueue(id) called once, and called again
removeCall ==
  /\ probe = NoProbe
  /\ \E queue \in Queues, id \in 1..MaxItems :
       probe' = [fn |-> "removeFromSyncQueue", queue |-> queue, id |-> id,
                 once |-> removeFromSyncQueue(queue, id),
                 after |-> removeFromSyncQueue(removeFromSyncQueue(queue, id), id)]
  /\ UNCHANGED <<tasks, sync_queue, nextQueueId, now, batchSize, round, obs>>

\* handleSyncError's update of an item removeFromSyncQueue(id) has removed
retryCall ==
  /\ probe = NoProbe
  /\ \E queue \in Queues, id \in 1..MaxItems, newRetryCount \in 1..maxRetries :
       probe' = [fn |-> "handleSyncError", queue |-> queue, id |-> id,
                 once |-> removeFromSyncQueue(queue, id),
                 after |-> updateRetry(removeFromSyncQueue(queue, id), id,
                                       newRetryCount, DispatchError)]
  /\ UNCHANGED <<tasks, sync_queue, nextQueueId, now, batchSize, round, obs>>

NextQueue == removeCall \/ retryCall

SpecQueue == Init /\ [][NextQueue]_vars

(* ------------------------ rounds run repeatedly ------------------------ *)
\* a step of sync(): the call, an awaited statement completing, the return
syncStep(r) ==
  \/ serialStart(r)
  \/ dispatchReturns(r)
  \/ dispatchThrows(r)
  \/ applyOutcome(r)
  \/ removeSynced(r)
  \/ catchItem(r)
  \/ handleSyncErrorQueue(r)
  \/ handleSyncErrorStatus(r)
  \/ syncReturn(r)

\* requests of the tasks API come between rounds; rounds are run one after
\* the other, the remote free in its outcomes
NextDrain ==
  \/ NoRoundActive /\ \E title \in NewTitles : createTask(title)
  \/ NoRoundActive /\ \E id \in TaskIds, title \in UpdateTitles : updateTask(id, title)
  \/ NoRoundActive /\ \E id \in TaskIds : deleteTask(id)
  \/ \E r \in Rounds : syncStep(r)

\* every awaited statement completes, and sync() is called again after it
\* has returned
SpecDrain == Init /\ [][NextDrain]_vars /\ WF_vars(\E r \in Rounds : syncStep(r))

(* ------------------- requests on a store already synced ------------------ *)
\* the tasks table after earlier requests and rounds: up to MaxTasks Records,
\* soft-deleted or not, every one synced and with no item left in the queue
SyncedStores ==
  UNION {{[id \in 1..n |->
             [title |-> f[id].title, updated_at |-> 0, is_deleted |-> f[id].is_deleted,
              sync_status |-> "synced", server_id |-> id, last_synced_at |-> 0]] :
            f \in [1..n -> [title : Titles, is_deleted : BOOLEAN]]} :
         n \in 0..MaxTasks}

InitCrud ==
  /\ tasks \in SyncedStores
  /\ sync_queue = {}
  /\ nextQueueId = 1
  /\ now = 0
  /\ batchSize \in BatchSizes
  /\ round = [r \in Rounds |-> RoundIdle]
  /\ obs = [r \in Rounds |-> ObsIdle]
  /\ probe = NoProbe

\* the requests of the tasks API, no round running
NextCrud ==
  \/ Tick
  \/ \E title \in NewTitles : createTask(title)
  \/ \E id \in TaskIds, title \in UpdateTitles : updateTask(id, title)
  \/ \E id \in TaskIds : deleteTask(id)

SpecCrud == InitCrud /\ [][NextCrud]_vars

(* ============================ properties ============================== *)
\* the stored queue row with an id, as a set: empty when the row is gone
stored(queue, id) == {row \in queue : row.id = id}

\* a round holds the result it is about to return
Done(r) == round[r].pc = "done"

\* the step of round r that takes an outcome with a given status to its
\* first statement
Handles(r, status) ==
  /\ round[r].pc = "apply"
  /\ round'[r].pc \in {"remove", "hse_queue", "hse_status"}
  /\ round'[r].processedItem.status = status

\* the queue item round r is handling (after the step that matched it)
curItem(rr) == batchOf(rr)[rr.cur]

\* the number of items in the batches with an index in S
RECURSIVE SumLen(_, _)
SumLen(batches, S) ==
  IF S = {} THEN 0
  ELSE LET j == CHOOSE x \in S : TRUE IN Len(batches[j]) + SumLen(batches, S \ {j})

(* C1: a round whose every outcome is a success, one per item and echoing  *)
(* the item's record id, ends with none of the items it read left in the   *)
(* queue, every record it referenced that has no item left synced, and     *)
(* the counts synced_items = N, failed_items = 0.                          *)
C1_RoundConvergence ==
  \A r \in Rounds :
    (Done(r) /\ obs[r].allSuccess) =>
      LET items == round[r].queueItems IN
      /\ \A i \in 1..Len(items) : stored(sync_queue, items[i].id) = {}
      /\ \A i \in 1..Len(items) :
           (\A row \in sync_queue : row.task_id # items[i].task_id)
             => tasks[items[i].task_id].sync_status = "synced"
      /\ round[r].result.synced_items = Len(items)
      /\ round[r].result.failed_items = 0

(* C2: handling a conflict outcome that carries resolved data writes the   *)
(* field values of the last-write-wins winner to the Record.               *)
C2_WinnerWrittenBack ==
  [][\A r \in Rounds :
       Handles(r, "conflict") =>
         \A serverTask \in round'[r].processedItem.resolved_data :
           LET queueItem == curItem(round'[r]) IN
           tasks'[queueItem.task_id].title =
             resolveConflict(queueItem.data, serverTask).title]_vars

(* C3: a dead-lettered item (retry_count >= maxRetries) is not removed     *)
(* from the queue and not modified again (the remote echoing every         *)
(* item's record id).                                                      *)
C3_DeadLetterStays ==
  [][(\A r \in Rounds : obs'[r].echoed) =>
       \A row \in sync_queue :
         row.retry_count >= maxRetries => row \in sync_queue']_vars

C5_StatusWritten(r) ==
  Handles(r, "success") =>
    LET row == tasks'[curItem(round'[r]).task_id] IN
    /\ row.sync_status = "synced"
    /\ row.server_id = round'[r].processedItem.server_id
    /\ row.last_synced_at = now

\* the next statement removes the matched item, no other, and counts it
C5_ItemRemoved(r) ==
  (round[r].pc = "remove" /\ round'[r] # round[r]) =>
    /\ sync_queue' = sync_queue \ stored(sync_queue, curItem(round[r]).id)
    /\ stored(sync_queue', curItem(round[r]).id) = {}
    /\ round'[r].result.synced_items = round[r].result.synced_items + 1
    /\ round'[r].result.failed_items = round[r].result.failed_items

\* a round that read one item and got its success
C5_SingleItemRound(r) ==
  (Done(r) /\ obs[r].allSuccess /\ Len(round[r].queueItems) = 1) =>
    LET item == round[r].queueItems[1] IN
    /\ stored(sync_queue, item.id) = {}
    /\ round[r].result.synced_items = 1
    /\ (\A row \in sync_queue : row.task_id # item.task_id) =>
         /\ tasks[item.task_id].sync_status = "synced"
         /\ tasks[item.task_id].server_id = item.task_id

(* C5: a success outcome matched to a queue item sets the Record's         *)
(* sync_status to synced, its server_id to the outcome's and its           *)
(* last_synced_at to the current time; the next statement removes that     *)
(* queue item and no other, and synced_items grows by one.  A round that   *)
(* read a single item and got its success leaves that item out of the      *)
(* queue and, no newer item for the record being queued, the Record synced *)
(* with the server's id.                                                   *)
C5_SuccessApplied ==
  /\ [][\A r \in Rounds : C5_StatusWritten(r) /\ C5_ItemRemoved(r)]_vars
  /\ [](\A r \in Rounds : C5_SingleItemRound(r))

\* a record created offline, its create item synced by a round: the queue
\* is empty, the record synced under the server's id
C5_Witness ==
  \E r \in Rounds :
    /\ Done(r) /\ obs[r].allSuccess /\ Len(round[r].queueItems) = 1
    /\ round[r].queueItems[1].operation = "create"
    /\ sync_queue = {}
    /\ tasks[round[r].queueItems[1].task_id].sync_status = "synced"
    /\ tasks[round[r].queueItems[1].task_id].server_id # NULL
    /\ tasks[round[r].queueItems[1].task_id].last_synced_at # NULL
    /\ round[r].result.synced_items = 1

\* the error message the retry policy stores
policyMessage(item, message) ==
  IF item.retry_count + 1 >= maxRetries THEN "Permanent failure: " \o message
  ELSE message

\* the batches of round r whose loop has ended
finished(r) ==
  {j \in 1..Len(round[r].batches) : j < round[r].b \/ Done(r)}

\* an item of a batch that threw is counted once and gets one error entry
C6_ItemCounted(r) ==
  (round[r].inCatch /\ round[r].pc \in {"hse_queue", "hse_status"}
     /\ round'[r] # round[r]) =>
    LET item == curItem(round[r]) IN
    /\ round'[r].result.failed_items = round[r].result.failed_items + 1
    /\ round'[r].result.synced_items = round[r].result.synced_items
    /\ round'[r].result.errors =
         Append(round[r].result.errors,
                [task_id |-> item.task_id, operation |-> item.operation,
                 error |-> DispatchError, timestamp |-> now])

\* every item of a batch that threw has gone through the retry policy once
C6_BatchRouted(r) ==
  \A j \in obs[r].threw \cap finished(r) :
    \A i \in 1..Len(round[r].batches[j]) :
      LET item == round[r].batches[j][i] IN
      \E row \in stored(sync_queue, item.id) :
        /\ row.retry_count = item.retry_count + 1
        /\ row.error_message = policyMessage(item, DispatchError)

\* the round reaches its last batch, handles one outcome or failure per item
\* it read, and gives the dispatch error to the items of the batches that
\* threw and to no other
C6_RoundGoesOn(r) ==
  Done(r) =>
    /\ round[r].b = Len(round[r].batches)
    /\ obs[r].handled = Len(round[r].queueItems)
    /\ obs[r].threw # {} => ~round[r].result.success
    /\ round[r].result.failed_items = Len(round[r].result.errors)
    /\ Cardinality({i \in 1..Len(round[r].result.errors) :
                      round[r].result.errors[i].error = DispatchError})
         = SumLen(round[r].batches, obs[r].threw)

(* C6: when the dispatch of a batch throws, each item of that batch goes   *)
(* through the retry policy once (its stored retry_count one above the     *)
(* count read, the error stored), is counted once in failed_items and gets *)
(* one error entry; no item of another batch does; the round goes on to    *)
(* every later batch and returns success = false.                          *)
C6_BatchThrows ==
  /\ [][\A r \in Rounds : C6_ItemCounted(r)]_vars
  /\ [](\A r \in Rounds : C6_BatchRouted(r) /\ C6_RoundGoesOn(r))

\* the first of two batches threw, the second was dispatched and synced
C6_Witness ==
  \E r \in Rounds :
    /\ Done(r) /\ obs[r].threw = {1} /\ Len(round[r].batches) = 2
    /\ round[r].result.failed_items = 1
    /\ round[r].result.synced_items = 1
    /\ ~round[r].result.success
    /\ stored(sync_queue, round[r].batches[2][1].id) = {}

(* C7: an item whose failure a round handled as a retry (its stored        *)
(* retry_count one above the count the round read, below maxRetries) stays *)
(* in the queue with that count to the end of the round, so that the next  *)
(* round's pending query returns it (the remote echoing every item's       *)
(* record id).                                                             *)
C7_RetriedItemStays ==
  [][\A r \in Rounds :
       obs'[r].echoed =>
         \A i \in 1..Len(round[r].queueItems) :
           LET item == round[r].queueItems[i] IN
           (/\ item.retry_count + 1 < maxRetries
            /\ \E row \in stored(sync_queue, item.id) :
                 row.retry_count = item.retry_count + 1)
             => \E row \in stored(sync_queue', item.id) :
                  row.retry_count = item.retry_count + 1]_vars

(* C8: a queue item is not removed while an earlier-created item for the   *)
(* same record is still in the queue with retries left (the remote         *)
(* echoing every item's record id).                                        *)
C8_FifoPerRecord ==
  [][(\A r \in Rounds : obs'[r].echoed) =>
       \A row \in sync_queue :
         stored(sync_queue', row.id) = {} =>
           ~\E earlier \in sync_queue :
               /\ earlier.task_id = row.task_id
               /\ earlier.created_at < row.created_at
               /\ earlier.retry_count < maxRetries]_vars

(* C9: the pending query of a round returns exactly the queue rows with    *)
(* retry_count < maxRetries as stored at the call, each once, in           *)
(* non-decreasing created_at order.                                        *)
C9_PendingQuery ==
  [][\A r \in Rounds :
       (round[r].pc = "idle" /\ round'[r].pc # "idle") =>
         LET s == round'[r].queueItems IN
         /\ Range(s) = {row \in sync_queue : row.retry_count < maxRetries}
         /\ Len(s) = Cardinality(Range(s))
         /\ \A i \in 1..Len(s), j \in 1..Len(s) :
              i < j => s[i].created_at <= s[j].created_at]_vars

\* a round has read two items created at different times
C9_Witness ==
  \E r \in Rounds :
    /\ round[r].pc = "dispatch" /\ round[r].b = 1
    /\ Len(round[r].queueItems) = 2
    /\ round[r].queueItems[1].created_at < round[r].queueItems[2].created_at

\* the longest list, and the largest batch size, the cut is checked on by
\* itself
BatchLen == 6

\* the batches put end to end
Flatten(batches) ==
  [i \in 1..SumLen(batches, 1..Len(batches)) |->
     LET j == CHOOSE x \in 1..Len(batches) :
                /\ SumLen(batches, 1..(x - 1)) < i
                /\ i <= SumLen(batches, 1..x)
     IN  batches[j][i - SumLen(batches, 1..(j - 1))]]

\* batches are items cut into ceil(N/size) pieces in order, each of size
\* items but for a shorter last one
IsPartition(batches, items, size) ==
  /\ Len(batches) = (Len(items) + size - 1) \div size
  /\ Flatten(batches) = items
  /\ \A j \in 1..Len(batches) :
       /\ j < Len(batches) => Len(batches[j]) = size
       /\ Len(batches[j]) \in 1..size

\* the cut of every list of up to BatchLen items, and of 120 items by 50
C10_AnyList ==
  /\ \A N \in 0..BatchLen, B \in 1..BatchLen :
       IsPartition(Batches([i \in 1..N |-> i], B), [i \in 1..N |-> i], B)
  /\ LET batches == Batches([i \in 1..120 |-> i], 50)
     IN  [j \in 1..Len(batches) |-> Len(batches[j])] = <<50, 50, 20>>

(* C10: the batches of a round are the pending list cut into ceil(N/B)     *)
(* contiguous pieces in order, each of B items but for a shorter last one  *)
(* (N = 120, B = 50: 50, 50, 20); a batch is dispatched when every outcome *)
(* of the batches before it has been handled.                              *)
C10_Batching ==
  /\ C10_AnyList
  /\ \A r \in Rounds :
       round[r].pc # "idle" =>
         /\ IsPartition(round[r].batches, round[r].queueItems, batchSize)
         /\ round[r].pc = "dispatch" =>
              obs[r].handled = SumLen(round[r].batches, 1..(round[r].b - 1))
         /\ round[r].pc \notin {"dispatch", "done"} =>
              obs[r].handled \in
                SumLen(round[r].batches, 1..(round[r].b - 1)) ..
                SumLen(round[r].batches, 1..round[r].b)

\* the second of two batches is about to be dispatched
C10_Witness ==
  \E r \in Rounds :
    /\ round[r].pc = "dispatch" /\ round[r].b = 2
    /\ Len(round[r].batches) = 2
    /\ Len(round[r].queueItems) = 2

(* C11: every round that has been started comes to return a result,       *)
(* whatever value the batch size was constructed with.                     *)
C11_RoundTerminates ==
  \A r \in Rounds : (round[r].pc # "idle") ~> Done(r)

(* C12: no round runs with a batch size <= 0.                              *)
C12_BatchSizeRejected ==
  \A r \in Rounds :
    round[r].pc # "idle" => ~(batchSize # NaN /\ batchSize <= 0)

(* C13: a CRUD operation that enqueues adds exactly one queue item, with   *)
(* a new id, retry_count 0, the operation performed, the Record's id and   *)
(* the Record's field values as the operation left them; the Record is     *)
(* pending and the items already queued are unchanged.                     *)
C13_OneItemPerMutation ==
  [][nextQueueId' # nextQueueId =>
       \E item \in sync_queue' :
         /\ stored(sync_queue, item.id) = {}
         /\ sync_queue' = sync_queue \cup {item}
         /\ item.id = nextQueueId
         /\ item.retry_count = 0
         /\ item.task_id \in DOMAIN tasks'
         /\ item.operation =
              (IF item.task_id \notin DOMAIN tasks THEN "create"
               ELSE IF tasks'[item.task_id].is_deleted THEN "delete"
               ELSE "update")
         /\ tasks'[item.task_id].sync_status = "pending"
         /\ item.data = mapRowToTask(item.task_id, tasks'[item.task_id])]_vars

(* C14: at most one sync round is in progress at any time.                 *)
C14_OneRoundAtATime ==
  Cardinality({r \in Rounds : round[r].pc \notin {"idle", "done"}}) <= 1

\* the step of round r that applies a success, or a conflict with resolved
\* data, to the Record id
Reconciles(r, id) ==
  /\ round[r].pc = "apply"
  /\ round'[r].pc = "remove"
  /\ \/ round'[r].processedItem.status = "success"
     \/ /\ round'[r].processedItem.status = "conflict"
        /\ round'[r].processedItem.resolved_data # {}
  /\ curItem(round'[r]).task_id = id

\* the step of the retry policy that marks the Record id, for a failure
\* outcome, a conflict without resolved data or an item of a batch that threw
MarksFailed(r, id) ==
  \/ /\ round[r].pc \in {"apply", "catch"}
     /\ round'[r].pc = "hse_queue"
     /\ curItem(round'[r]).task_id = id
  \/ /\ round[r].pc = "hse_status"
     /\ round'[r] # round[r]
     /\ curItem(round[r]).task_id = id

(* C15: a Record's sync_status becomes synced only in the step of a round  *)
(* that applies a success or a conflict with resolved data to it, and      *)
(* becomes error only in the step of the retry policy that handles a       *)
(* failed attempt for it.                                                  *)
C15_StatusWriters ==
  [][\A id \in DOMAIN tasks :
       /\ (tasks[id].sync_status # "synced" /\ tasks'[id].sync_status = "synced")
            => \E r \in Rounds : Reconciles(r, id)
       /\ (tasks[id].sync_status # "error" /\ tasks'[id].sync_status = "error")
            => \E r \in Rounds : MarksFailed(r, id)]_vars

\* a round has synced one Record and marked another error
C15_Witness ==
  \E r \in Rounds :
    /\ Done(r)
    /\ round[r].result.synced_items = 1
    /\ round[r].result.failed_items = 1
    /\ \E id1, id2 \in DOMAIN tasks :
         tasks[id1].sync_status = "synced" /\ tasks[id2].sync_status = "error"

(* C16: while no round is in progress, a Record with sync_status synced    *)
(* has no queue item with retries left.                                    *)
C16_SyncedHasNoPending ==
  NoRoundActive =>
    \A id \in DOMAIN tasks :
      tasks[id].sync_status = "synced" =>
        ~\E row \in sync_queue :
            row.task_id = id /\ row.retry_count < maxRetries

(* C17: a Record's last_synced_at is set or changed only by the step of a  *)
(* round that applies a success or a conflict with resolved data to it.    *)
C17_LastSyncedOnReconcile ==
  [][\A id \in DOMAIN tasks :
       tasks'[id].last_synced_at # tasks[id].last_synced_at
         => \E r \in Rounds : Reconciles(r, id)]_vars

(* C18: a round whose read of the pending queue fails returns (it does not *)
(* throw) success = false, synced_items = 0, failed_items = 0 and one      *)
(* error entry that names no task; no queue item and no Record is          *)
(* modified by it.                                                         *)
C18_ReadFailureReturned ==
  [][\A r \in Rounds :
       (round[r].pc = "idle" /\ obs'[r].readFailed) =>
         /\ round'[r].pc = "done"
         /\ round'[r].result =
              [success |-> FALSE, synced_items |-> 0, failed_items |-> 0,
               errors |-> <<[task_id |-> "N/A", operation |-> "sync",
                             error |-> StorageError, timestamp |-> now]>>]
         /\ tasks' = tasks
         /\ sync_queue' = sync_queue]_vars

\* a round failed to read a queue that holds an item, and holds its result
C18_Witness ==
  \E r \in Rounds :
    /\ obs[r].readFailed /\ Done(r)
    /\ ~round[r].result.success
    /\ Len(round[r].result.errors) = 1
    /\ sync_queue # {}

(* C19: removing a queue item twice leaves the queue that removing it once *)
(* leaves, which is the queue without that item; a retry-count update for  *)
(* an item already removed leaves it absent and every other item as it     *)
(* was.                                                                    *)
C19_RemovalIdempotent ==
  probe.fn \in {"removeFromSyncQueue", "handleSyncError"} =>
    /\ probe.once = probe.queue \ stored(probe.queue, probe.id)
    /\ stored(probe.once, probe.id) = {}
    /\ probe.after = probe.once

\* the retry update came after the removal of an item that was in a queue
\* of two
C19_Witness ==
  /\ probe.fn = "handleSyncError"
  /\ stored(probe.queue, probe.id) # {}
  /\ Cardinality(probe.queue) = 2
  /\ Cardinality(probe.after) = 1

(* C20: of a response that echoes every item's record id in submission     *)
(* order, each outcome is handled on the queue item at its own position of *)
(* the batch; an outcome that matches no item of the batch changes neither *)
(* the queue, the Records nor the counters.                                *)
C20_OutcomeToOriginator ==
  [][\A r \in Rounds :
       (round[r].pc = "apply" /\ obs'[r].handled = obs[r].handled + 1) =>
         IF round'[r].pc \in {"remove", "hse_queue", "hse_status"}
           THEN obs'[r].echoed => round'[r].cur = round[r].k
           ELSE /\ ~obs'[r].echoed
                /\ tasks' = tasks
                /\ sync_queue' = sync_queue
                /\ round'[r].result.synced_items = round[r].result.synced_items
                /\ round'[r].result.failed_items = round[r].result.failed_items
                /\ round'[r].result.errors = round[r].result.errors]_vars

\* round r has written the Record's status for the outcome it is handling
\* and has the write to the queue item left to do
StatusWritten(r) == round[r].pc \in {"remove", "hse_queue"}

(* C21: in the handling of an outcome, the write to the queue item (its    *)
(* removal, or the update of its retry_count and error_message) comes      *)
(* after the write of the Record's status: a round changes the queue only  *)
(* in a step that has the status write behind it.                          *)
C21_QueueWriteLast ==
  [][\A r \in Rounds :
       (round'[r] # round[r] /\ sync_queue' # sync_queue) => StatusWritten(r)]_vars

(* C22: every failure handled for a queue item raises the item's stored    *)
(* retry_count by exactly one over the value stored at that moment.        *)
C22_AtomicBump ==
  [][\A r \in Rounds :
       \A row \in sync_queue :
         (/\ round'[r] # round[r]
          /\ \/ /\ round[r].pc \in {"apply", "catch"}
                /\ round'[r].pc = "hse_status"
                /\ curItem(round'[r]).id = row.id
             \/ /\ round[r].pc = "hse_queue"
                /\ curItem(round[r]).id = row.id)
           => \E row2 \in stored(sync_queue', row.id) :
                row2.retry_count = row.retry_count + 1]_vars

\* the ids of the queue items a round read when it started
readIds(rr) == {rr.queueItems[j].id : j \in 1..Len(rr.queueItems)}

(* C23: a queue item enqueued while a round is running is left alone by    *)
(* that round: no step of the round removes or changes a row the round did *)
(* not read, such a row still pending has retry_count 0 and no message,    *)
(* and the read of the next round returns every row with retry_count 0.    *)
C23_LateItemUntouched ==
  /\ [](\A r \in Rounds : \A row \in sync_queue :
          (/\ round[r].pc # "idle"
           /\ row.id \notin readIds(round[r])
           /\ row.retry_count < maxRetries)
            => row.retry_count = 0 /\ row.error_message = "NULL")
  /\ [][\A r \in Rounds :
         /\ (round'[r] # round[r] /\ round[r].pc # "idle")
              => \A row \in sync_queue :
                   row.id \notin readIds(round[r]) => row \in sync_queue'
         /\ (round[r].pc = "idle" /\ round'[r].pc # "idle")
              => \A row \in sync_queue :
                   row.retry_count = 0 => row.id \in readIds(round'[r])]_vars

\* a round has handled the items it read and an item enqueued meanwhile is
\* in the queue as it was inserted
C23_Witness ==
  \E r \in Rounds :
    /\ Done(r)
    /\ round[r].result.synced_items + round[r].result.failed_items > 0
    /\ \E row \in sync_queue :
         /\ row.id \notin readIds(round[r])
         /\ row.retry_count = 0
         /\ \E j \in 1..Len(round[r].queueItems) :
              round[r].queueItems[j].task_id = row.task_id

\* an outcome that is neither a success nor a conflict with resolved data
FailureLike(processedItem) ==
  \/ processedItem.status = "failure"
  \/ processedItem.status = "conflict" /\ processedItem.resolved_data = {}

itemsOf(queue, id, operation) ==
  {row \in queue : row.task_id = id /\ row.operation = operation}

(* C25: updateTask and deleteTask on an id that has no Record, or whose     *)
(* Record is soft-deleted, change nothing: the Record, if there is one, is  *)
(* left as it is, no Record appears but by createTask, and no update or     *)
(* delete item is enqueued for the id; so a Record deleted twice has one    *)
(* delete item.                                                             *)
C25_MissingRecordNoEffect ==
  /\ [](\A id \in TaskIds : Cardinality(itemsOf(sync_queue, id, "delete")) <= 1)
  /\ [][\A id \in TaskIds :
         getTask(id) = {} =>
           /\ \A row \in sync_queue' \ sync_queue :
                row.task_id = id => row.operation = "create"
           /\ id \in DOMAIN tasks => tasks'[id] = tasks[id]
           /\ (id \notin DOMAIN tasks /\ id \in DOMAIN tasks') =>
                itemsOf(sync_queue' \ sync_queue, id, "create") # {}]_vars

\* a Record has been deleted, its delete item is in the queue, and there is
\* room for the item a second delete or an update would enqueue
C25_Witness ==
  \E id \in DOMAIN tasks :
    /\ tasks[id].is_deleted
    /\ Cardinality(itemsOf(sync_queue, id, "delete")) = 1
    /\ nextQueueId <= MaxItems
    /\ \E other \in TaskIds : other \notin DOMAIN tasks

(* C27: a round counts each queue item it read at most once: synced_items  *)
(* plus failed_items never exceeds the number of pending items read, also  *)
(* when a statement throws while the outcomes of a batch are applied.      *)
C27_CountedOnce ==
  \A r \in Rounds :
    round[r].result.synced_items + round[r].result.failed_items
      <= Len(round[r].queueItems)

(* C28: whatever the interleaving of requests and rounds, rounds that      *)
(* overlap included, the retry_count of every queue item is between 0 and  *)
(* maxRetries and no step lowers it.                                       *)
C28_RetryCountMonotonic ==
  /\ [](\A row \in sync_queue : 0 <= row.retry_count /\ row.retry_count <= maxRetries)
  /\ [][\A row \in sync_queue : \A row2 \in stored(sync_queue', row.id) :
         row2.retry_count >= row.retry_count]_vars

\* the rows the pending query selects
pending(queue) == {row \in queue : row.retry_count < maxRetries}

\* every outcome handled so far by the rounds running carried the record id
\* of the item at its position in the batch
Echoed == \A r \in Rounds : obs[r].echoed

(* C26: with rounds run one after the other and, from some point on, no    *)
(* new mutation, every queue item is in the end removed or dead-lettered   *)
(* and the pending list stays empty, provided every outcome the remote     *)
(* returns carries the record id of the item it answers.                   *)
C26_QueueDrains == ([]Echoed) => <>[](pending(sync_queue) = {})

(* C26 as stated, for whatever outcomes the remote returns: the pending    *)
(* list in the end stays empty.                                            *)
C26_DrainsWhateverOutcomes == <>[](pending(sync_queue) = {})

\* rounds have drained a queue of two items: one removed, the other
\* dead-lettered
C26_Witness ==
  /\ NoRoundActive
  /\ nextQueueId = 3
  /\ Cardinality(sync_queue) = 1
  /\ \A row \in sync_queue : row.retry_count = maxRetries

====
